---- MODULE Spec2Model ----
(***************************************************************************)
(* A model of the flight-tracker dashboard component App of src/index.jsx. *)
(*                                                                         *)
(* State: the React state of App (flights, searchTerm, selectedFlight,     *)
(* isModalOpen), the interval timer of the feed simulation, the data held  *)
(* by the two charts computed from flights, and the rendered view (table   *)
(* body and the three KPI cards).                                          *)
(*                                                                         *)
(* Strings that the code processes (toLowerCase, includes, split, length)  *)
(* are sequences of one-character strings, so that these conversions are   *)
(* computed and not assumed.  Random draws are nondeterministic choices    *)
(* from small sets of representatives of the drawn range.                  *)
(***************************************************************************)
EXTENDS Integers, Sequences, FiniteSets, TLC

VARIABLES
    flights,          \* useState: the flight sequence                (l.66)
    searchTerm,       \* useState: the text of the search box         (l.67)
    selectedFlight,   \* useState: <<>> for null, <<f>> for a flight  (l.68)
    isModalOpen,      \* useState                                     (l.69)
    phase,            \* "rendered" | "mounted" | "unmounted"
    interval,         \* "none" | "active" | "cleared": the setInterval timer
    statusChart,      \* <<>> before the chart exists, else <<data>>  (l.194-219)
    topAirportsChart, \* <<>> before the chart exists, else <<data>>  (l.262-299)
    view,             \* what the last render put in the KPI cards and the table
    nextId,           \* history: number of flights generated so far, plus one
    lastTick,         \* history: what the last firing of the interval did
    wrapCall          \* a call of wrapLabel: its argument and, in a sequence
                      \* of at most one value, what it returned

vars == <<flights, searchTerm, selectedFlight, isModalOpen, phase, interval,
          statusChart, topAirportsChart, view, nextId, lastTick, wrapCall>>

-----------------------------------------------------------------------------
(* Bounds of the model *)

\* The collection size of the code (50: the seed's length and slice(-50)),
\* scaled down.
Capacity == 3

\* How many flights ticks may append before the generator is exhausted.
MaxAppends == 2

\* Longest flight sequence handed to the search, and to the chart functions,
\* in the specifications that draw their input freely.
MaxSearchInput == 2
MaxChartInput == 4

-----------------------------------------------------------------------------
(* Strings *)

UpperChars == <<"A","B","C","D","E","F","G","H","I","J","K","L","M",
                "N","O","P","Q","R","S","T","U","V","W","X","Y","Z">>
LowerChars == <<"a","b","c","d","e","f","g","h","i","j","k","l","m",
                "n","o","p","q","r","s","t","u","v","w","x","y","z">>
DigitChars == <<"0","1","2","3","4","5","6","7","8","9">>

Max(a, b) == IF a >= b THEN a ELSE b
Min(a, b) == IF a <= b THEN a ELSE b

\* the case pairs of the letters
UpperIndex == [c \in { UpperChars[i] : i \in 1..Len(UpperChars) } |->
                 CHOOSE i \in 1..Len(UpperChars) : UpperChars[i] = c]
LowerIndex == [c \in { LowerChars[i] : i \in 1..Len(LowerChars) } |->
                 CHOOSE i \in 1..Len(LowerChars) : LowerChars[i] = c]

\* String.prototype.toLowerCase, character by character
ToLowerChar(c) ==
    IF c \in DOMAIN UpperIndex THEN LowerChars[UpperIndex[c]] ELSE c

ToLowerCase(s) == [i \in 1..Len(s) |-> ToLowerChar(s[i])]

\* String.prototype.toUpperCase, character by character
ToUpperChar(c) ==
    IF c \in DOMAIN LowerIndex THEN UpperChars[LowerIndex[c]] ELSE c

ToUpperCase(s) == [i \in 1..Len(s) |-> ToUpperChar(s[i])]

\* String.prototype.substring(0, n)
Substring0(s, n) == SubSeq(s, 1, Min(n, Len(s)))

\* String.prototype.includes: scan the start positions from the left
RECURSIVE IncludesFrom(_, _, _)
IncludesFrom(s, t, k) ==
    IF k + Len(t) > Len(s) THEN FALSE
    ELSE IF SubSeq(s, k + 1, k + Len(t)) = t THEN TRUE
    ELSE IncludesFrom(s, t, k + 1)

Includes(s, t) == IncludesFrom(s, t, 0)

\* the decimal digits of a number 100..999, as the template literal prints it
NumberToString(n) ==
    <<DigitChars[(n \div 100) + 1], DigitChars[((n \div 10) % 10) + 1],
      DigitChars[(n % 10) + 1]>>

-----------------------------------------------------------------------------
(* generateMockFlight *)

OnTime    == <<"O","n"," ","T","i","m","e">>
Delayed   == <<"D","e","l","a","y","e","d">>
Departed  == <<"D","e","p","a","r","t","e","d">>
Arrived   == <<"A","r","r","i","v","e","d">>
Cancelled == <<"C","a","n","c","e","l","l","e","d">>

statuses == <<OnTime, Delayed, Departed, Arrived, Cancelled>>

airlines == << <<"S","k","y","L","i","n","k">>,
               <<"G","l","o","b","a","l","A","i","r">>,
               <<"O","c","e","a","n","i","c">>,
               <<"S","t","a","r","F","l","i","g","h","t">>,
               <<"C","o","n","n","e","c","t","A","i","r">> >>

airports == << <<"J","F","K">>, <<"L","H","R">>, <<"D","X","B">>,
               <<"N","R","T">>, <<"S","Y","D">>, <<"F","R","A">>,
               <<"C","D","G">>, <<"S","I","N">>, <<"L","A","X">>,
               <<"P","E","K">> >>

aircraftTypes == <<"Boeing 747", "Airbus A320", "Boeing 737", "Embraer 190">>

\* Math.floor(Math.random() * n) is any of 0..n-1.  The model draws the two
\* ends of the range where the value is a quantity, ...
FloorRandom(n) == {0, n - 1}
\* ... every index where the draw picks a status, ...
FloorRandomAll(n) == 0..(n - 1)
\* ... and the first outcome only where the value drawn is never computed
\* with (the speed is only ever reset to 0).
FloorRandomFirst(n) == {0}

\* The indexes of `airports` that the feed's generator draws.
FeedAirports == {0}

\* One outcome of generateMockFlight, given its draws.  `id` stands for the
\* token Math.random().toString(36).substr(2, 9): a value that differs from
\* the ids drawn before (the model numbers the flights as they are generated).
\* Times and coordinates are opaque values.
MockFlight(id, st, al, num, o, d, dl, ac, alt, spd, g, t) ==
    LET randomStatus == statuses[st + 1]
        isDelayed == IF randomStatus = Delayed THEN dl + 10 ELSE 0
    IN  [ id              |-> id,
          flightNumber    |-> ToUpperCase(Substring0(airlines[al + 1], 3))
                                \o NumberToString(num + 100),
          origin          |-> airports[o + 1],
          destination     |-> airports[d + 1],
          status          |-> randomStatus,
          isDelayed       |-> isDelayed,
          estimatedArrival |-> "eta",
          actualDeparture |-> "atd",
          aircraftType    |-> aircraftTypes[ac + 1],
          altitude        |-> IF randomStatus = Departed THEN alt ELSE 0,
          speed           |-> IF randomStatus = Departed THEN spd + 300 ELSE 0,
          gate            |-> g + 1,
          terminal        |-> UpperChars[t + 1],
          routeCoords     |-> "coords" ]

\* Every flight generateMockFlight can return for the draws in the sets given:
\* As and Ns index the airline and the number, Os the airports.
MockFlights(id, As, Ns, Os) ==
    { MockFlight(id, st, al, num, o, d, dl, ac, alt, spd, g, t) :
        st \in FloorRandomAll(Len(statuses)), al \in As, num \in Ns,
        o \in Os, d \in Os,
        dl \in FloorRandom(120), ac \in FloorRandomFirst(Len(aircraftTypes)),
        alt \in FloorRandom(40000), spd \in FloorRandomFirst(600),
        g \in FloorRandomFirst(50), t \in FloorRandomFirst(5) }

\* generateMockFlight as the feed calls it
generateMockFlight(id) ==
    MockFlights(id, FloorRandomFirst(Len(airlines)), FloorRandomFirst(900),
                FeedAirports)

\* Array.from({ length: n }, generateMockFlight): the sequences of n generated
\* flights, numbered from id on
RECURSIVE ArrayFrom(_, _)
ArrayFrom(n, id) ==
    IF n = 0 THEN { <<>> }
    ELSE { <<f>> \o rest : f \in generateMockFlight(id),
                           rest \in ArrayFrom(n - 1, id + 1) }

-----------------------------------------------------------------------------
(* Arrays and objects *)

\* Array.prototype.slice(start) and slice(start, end)
SliceIndex(n, i) == IF i < 0 THEN Max(n + i, 0) ELSE Min(i, n)
Slice(s, start) == SubSeq(s, SliceIndex(Len(s), start) + 1, Len(s))
Slice2(s, start, end) ==
    SubSeq(s, SliceIndex(Len(s), start) + 1, SliceIndex(Len(s), end))

\* An object used as a counter table is the sequence of its entries
\* <<key, count>> in the order the keys were first assigned, which is the
\* order Object.keys, Object.values and Object.entries follow for keys that
\* are not integers.
HasKey(acc, k) == \E i \in 1..Len(acc) : acc[i][1] = k

\* acc[k] = (acc[k] || 0) + 1
Increment(acc, k) ==
    IF HasKey(acc, k)
    THEN [i \in 1..Len(acc) |->
            IF acc[i][1] = k THEN <<k, acc[i][2] + 1>> ELSE acc[i]]
    ELSE Append(acc, <<k, 1>>)

ObjectKeys(acc)   == [i \in 1..Len(acc) |-> acc[i][1]]
ObjectValues(acc) == [i \in 1..Len(acc) |-> acc[i][2]]

\* a sort that is not stable: each entry goes before the entries of its count
RECURSIVE InsertSortedBeforeEqual(_, _)
InsertSortedBeforeEqual(sorted, e) ==
    IF sorted = <<>> THEN <<e>>
    ELSE IF e[2] - Head(sorted)[2] >= 0
         THEN <<e>> \o sorted
         ELSE <<Head(sorted)>> \o InsertSortedBeforeEqual(Tail(sorted), e)

\* Array.prototype.sort with the comparator (a, b) => b[1] - a[1]: a stable
\* sort, by insertion of each entry behind the entries it does not precede.
RECURSIVE InsertSorted(_, _)
InsertSorted(sorted, e) ==
    IF sorted = <<>> THEN <<e>>
    ELSE IF e[2] - Head(sorted)[2] > 0   \* compare(head, e) > 0: e goes first
         THEN <<e>> \o sorted
         ELSE <<Head(sorted)>> \o InsertSorted(Tail(sorted), e)

RECURSIVE SortByCountDesc(_)
SortByCountDesc(entries) ==
    IF entries = <<>> THEN <<>>
    ELSE InsertSorted(SortByCountDesc(SubSeq(entries, 1, Len(entries) - 1)),
                      entries[Len(entries)])

-----------------------------------------------------------------------------
(* wrapLabel *)

maxLength == 16

\* String.prototype.split(' ')
RECURSIVE Split(_, _)
Split(s, cur) ==
    IF s = <<>> THEN <<cur>>
    ELSE IF Head(s) = " " THEN <<cur>> \o Split(Tail(s), <<>>)
    ELSE Split(Tail(s), Append(cur, Head(s)))

\* String.prototype.trim
RECURSIVE TrimStart(_)
TrimStart(s) ==
    IF s # <<>> /\ Head(s) = " " THEN TrimStart(Tail(s)) ELSE s
RECURSIVE TrimEnd(_)
TrimEnd(s) ==
    IF s # <<>> /\ s[Len(s)] = " " THEN TrimEnd(SubSeq(s, 1, Len(s) - 1)) ELSE s
Trim(s) == TrimEnd(TrimStart(s))

\* the loop of wrapLabel with a line that is full one character early
RECURSIVE WrapWordsShortLine(_, _, _)
WrapWordsShortLine(words, lines, currentLine) ==
    IF words = <<>>
    THEN IF currentLine # <<>> THEN Append(lines, Trim(currentLine)) ELSE lines
    ELSE LET word == Head(words)
             joined == currentLine
                         \o (IF currentLine # <<>> THEN <<" ">> ELSE <<>>)
                         \o word
         IN  IF Len(joined) >= maxLength
             THEN WrapWordsShortLine(Tail(words),
                                     IF currentLine # <<>>
                                     THEN Append(lines, Trim(currentLine))
                                     ELSE lines,
                                     word)
             ELSE WrapWordsShortLine(Tail(words), lines, joined)

\* the for loop of wrapLabel over the words left, with the lines pushed so
\* far and the line being filled
RECURSIVE WrapWords(_, _, _)
WrapWords(words, lines, currentLine) ==
    IF words = <<>>
    THEN IF currentLine # <<>> THEN Append(lines, Trim(currentLine)) ELSE lines
    ELSE LET word == Head(words)
             joined == currentLine
                         \o (IF currentLine # <<>> THEN <<" ">> ELSE <<>>)
                         \o word
         IN  IF Len(joined) > maxLength
             THEN WrapWords(Tail(words),
                            IF currentLine # <<>>
                            THEN Append(lines, Trim(currentLine)) ELSE lines,
                            word)
             ELSE WrapWords(Tail(words), lines, joined)

\* wrapLabel of a string: the string itself when it is short, else its lines
wrapLabel(label) ==
    IF Len(label) <= maxLength THEN label
    ELSE WrapWords(Split(label, <<>>), <<>>, <<>>)

\* A JavaScript value handed to wrapLabel, or returned by it: its type and
\* what it holds.  A string holds its characters, an array of strings its
\* elements; the values of the other types stand for themselves.
StringValue(chars) == [type |-> "string", value |-> chars]
ArrayValue(elems)  == [type |-> "array", value |-> elems]

\* wrapLabel of any value: the value itself when typeof label !== 'string',
\* else wrapLabel of the string
wrapLabelValue(label) ==
    IF label.type # "string" \/ Len(label.value) <= maxLength
    THEN label
    ELSE ArrayValue(wrapLabel(label.value))

\* no call of wrapLabel of its own: the charts call it for their labels
NoWrapCall == [label |-> StringValue(<<>>), returned |-> <<>>]

-----------------------------------------------------------------------------
(* Chart data *)

accentAmber == "#FFC107"
accentRed   == "#F44336"
accentGreen == "#4CAF50"
primaryCyan == "#00BCD4"

\* flights.reduce(...) of getFlightStatusData
RECURSIVE StatusCounts(_, _)
StatusCounts(fl, acc) ==
    IF fl = <<>> THEN acc
    ELSE StatusCounts(Tail(fl), Increment(acc, Head(fl).status))

StatusColor(status) ==
    IF status = OnTime THEN accentAmber
    ELSE IF status = Delayed \/ status = Cancelled THEN accentRed
    ELSE IF status = Arrived THEN accentGreen
    ELSE IF status = Departed THEN primaryCyan
    ELSE "#A0A0A0"

\* a distribution that starts from a zero count for each of the statuses
getFlightStatusDataZeroFilled(fl) ==
    LET statusCounts ==
            StatusCounts(fl, [i \in 1..Len(statuses) |-> <<statuses[i], 0>>])
        keys == ObjectKeys(statusCounts)
    IN  [ labels |-> [i \in 1..Len(keys) |-> wrapLabel(keys[i])],
          data   |-> ObjectValues(statusCounts),
          colors |-> [i \in 1..Len(keys) |-> StatusColor(keys[i])] ]

getFlightStatusData(fl) ==
    LET statusCounts == StatusCounts(fl, <<>>)
        keys == ObjectKeys(statusCounts)
    IN  [ labels |-> [i \in 1..Len(keys) |-> wrapLabel(keys[i])],
          data   |-> ObjectValues(statusCounts),
          colors |-> [i \in 1..Len(keys) |-> StatusColor(keys[i])] ]

\* flights.reduce(...) of getTopAirportsData
RECURSIVE AirportCounts(_, _)
AirportCounts(fl, acc) ==
    IF fl = <<>> THEN acc
    ELSE AirportCounts(Tail(fl),
             Increment(Increment(acc, Head(fl).origin), Head(fl).destination))

\* the ranking with .slice(0, 5) forgotten
getTopAirportsDataNoSlice(fl) ==
    LET airportCounts == AirportCounts(fl, <<>>)
        sortedAirports == SortByCountDesc(airportCounts)
    IN  [ labels |-> [i \in 1..Len(sortedAirports) |->
                        wrapLabel(sortedAirports[i][1])],
          data   |-> [i \in 1..Len(sortedAirports) |-> sortedAirports[i][2]] ]

getTopAirportsData(fl) ==
    LET airportCounts == AirportCounts(fl, <<>>)
        sortedAirports == Slice2(SortByCountDesc(airportCounts), 0, 5)
    IN  [ labels |-> [i \in 1..Len(sortedAirports) |->
                        wrapLabel(sortedAirports[i][1])],
          data   |-> [i \in 1..Len(sortedAirports) |-> sortedAirports[i][2]] ]

-----------------------------------------------------------------------------
(* Rendering *)

\* the predicate with searchTerm used as typed, not in lower case
MatchesSearchCaseSensitive(flight, term) ==
    \/ Includes(ToLowerCase(flight.flightNumber), term)
    \/ Includes(ToLowerCase(flight.origin), term)
    \/ Includes(ToLowerCase(flight.destination), term)
    \/ Includes(ToLowerCase(flight.status), term)

\* the predicate of flights.filter(...)
MatchesSearch(flight, term) ==
    LET q == ToLowerCase(term)      \* searchTerm.toLowerCase()
    IN  \/ Includes(ToLowerCase(flight.flightNumber), q)
        \/ Includes(ToLowerCase(flight.origin), q)
        \/ Includes(ToLowerCase(flight.destination), q)
        \/ Includes(ToLowerCase(flight.status), q)

filteredFlights(fl, term) == SelectSeq(fl, LAMBDA f : MatchesSearch(f, term))

\* filteredFlights.filter(f => f.status === status).length
KpiValue(filtered, status) ==
    Len(SelectSeq(filtered, LAMBDA f : f.status = status))

NoFlightsText == "No flights found matching your search."

\* the rows of <tbody>: one row per filtered flight (its key and cells are
\* the flight's, its button opens the flight), or the single message row
TableBody(filtered) ==
    IF Len(filtered) > 0
    THEN [i \in 1..Len(filtered) |-> [flight |-> <<filtered[i]>>, text |-> ""]]
    ELSE << [flight |-> <<>>, text |-> NoFlightsText] >>

\* a render whose KPI cards count flights instead of filteredFlights
RenderKpiUnfiltered(fl, term, open, selected) ==
    LET filtered == filteredFlights(fl, term)
    IN  [ kpiDeparted |-> KpiValue(fl, Departed),
          kpiArrived  |-> KpiValue(fl, Arrived),
          kpiDelayed  |-> KpiValue(fl, Delayed),
          tbody       |-> TableBody(filtered),
          modal       |-> IF open THEN selected ELSE <<>> ]

\* what App returns for a state: the KPI cards, the table and the modal
\* (FlightDetailModal returns null for a null flight)
Render(fl, term, open, selected) ==
    LET filtered == filteredFlights(fl, term)
    IN  [ kpiDeparted |-> KpiValue(filtered, Departed),
          kpiArrived  |-> KpiValue(filtered, Arrived),
          kpiDelayed  |-> KpiValue(filtered, Delayed),
          tbody       |-> TableBody(filtered),
          modal       |-> IF open THEN selected ELSE <<>> ]

-----------------------------------------------------------------------------
(* The feed: the callback of setInterval *)

\* Math.random() in thousandths, drawn on both sides of each threshold the
\* code compares it with (0.1 and 0.9 in the map, 0.2 before the push).
MapDraws  == {99, 100, 500, 900, 901}
PushDraws == {199, 200}

\* the callback with `speed: 0` forgotten in the second branch
mapFlightKeepSpeed(f, rand, dl) ==
    IF rand < 100 /\ f.status = OnTime
    THEN [f EXCEPT !.status = Delayed, !.isDelayed = dl + 10]
    ELSE IF rand > 900 /\ f.status = Departed
    THEN [f EXCEPT !.status = Arrived, !.altitude = 0]
    ELSE f

\* the callback with the status test forgotten in the second branch
mapFlightAnyStatus(f, rand, dl) ==
    IF rand < 100 /\ f.status = OnTime
    THEN [f EXCEPT !.status = Delayed, !.isDelayed = dl + 10]
    ELSE IF rand > 900
    THEN [f EXCEPT !.status = Arrived, !.altitude = 0, !.speed = 0]
    ELSE f

\* the callback with `status: 'Delayed'` forgotten in the first branch
mapFlightDelayOnly(f, rand, dl) ==
    IF rand < 100 /\ f.status = OnTime
    THEN [f EXCEPT !.isDelayed = dl + 10]
    ELSE IF rand > 900 /\ f.status = Departed
    THEN [f EXCEPT !.status = Arrived, !.altitude = 0, !.speed = 0]
    ELSE f

\* the callback with a first branch that also takes the flights that are
\* Delayed already, and draws their delay again
mapFlightDelayAgain(f, rand, dl) ==
    IF rand < 100 /\ (f.status = OnTime \/ f.status = Delayed)
    THEN [f EXCEPT !.status = Delayed, !.isDelayed = dl + 10]
    ELSE IF rand > 900 /\ f.status = Departed
    THEN [f EXCEPT !.status = Arrived, !.altitude = 0, !.speed = 0]
    ELSE f

\* the callback with a delay of Math.floor(Math.random() * 60), the + 10
\* forgotten
mapFlightNoMinimum(f, rand, dl) ==
    IF rand < 100 /\ f.status = OnTime
    THEN [f EXCEPT !.status = Delayed, !.isDelayed = dl]
    ELSE IF rand > 900 /\ f.status = Departed
    THEN [f EXCEPT !.status = Arrived, !.altitude = 0, !.speed = 0]
    ELSE f

\* the callback of prevFlights.map, for its draws: rand, and dl for
\* Math.floor(Math.random() * 60)
mapFlight(f, rand, dl) ==
    IF rand < 100 /\ f.status = OnTime
    THEN [f EXCEPT !.status = Delayed, !.isDelayed = dl + 10]
    ELSE IF rand > 900 /\ f.status = Departed
    THEN [f EXCEPT !.status = Arrived, !.altitude = 0, !.speed = 0]
    ELSE f

\* what the callback can return for one flight
MapOutcomes(f) ==
    { mapFlight(f, rand, dl) : rand \in MapDraws, dl \in FloorRandom(60) }

\* prevFlights.map(...): every array the map can return
RECURSIVE MapAll(_)
MapAll(prevFlights) ==
    IF prevFlights = <<>> THEN { <<>> }
    ELSE { <<f>> \o rest : f \in MapOutcomes(Head(prevFlights)),
                           rest \in MapAll(Tail(prevFlights)) }

\* newFlights returned whole, the slice forgotten
KeepAll(newFlights) == newFlights

\* newFlights.slice(0, 50): the first 50 kept instead of the last
KeepFirst(newFlights) == Slice2(newFlights, 0, Capacity)

\* newFlights.slice(-49): one flight fewer kept
KeepOneLess(newFlights) == Slice(newFlights, 0 - (Capacity - 1))

\* newFlights.slice(-50)
KeepLast(newFlights) == Slice(newFlights, 0 - Capacity)

\* History of a firing: whether a flight that is still in the sequence was
\* moved to Delayed, or to Arrived, and whether a flight was pushed.
TickEffects(prevFlights, nextFlights, push) ==
    LET Moved(from, to) ==
            \E i \in 1..Len(prevFlights), j \in 1..Len(nextFlights) :
                /\ nextFlights[j].id = prevFlights[i].id
                /\ prevFlights[i].status = from
                /\ nextFlights[j].status = to
    IN  [ delayed |-> Moved(OnTime, Delayed),
          arrived |-> Moved(Departed, Arrived),
          pushed  |-> push ]

NoTick == [delayed |-> FALSE, arrived |-> FALSE, pushed |-> FALSE]

\* the state of the charts and of the page after a render of the state given
\* (the chart effects run after every render, as chartTooltipOptions is a
\* new object each time; they need the canvases, that is a mounted page)
ChartsAfter(fl) ==
    /\ statusChart' = <<getFlightStatusData(fl)>>
    /\ topAirportsChart' = <<getTopAirportsData(fl)>>

-----------------------------------------------------------------------------
(* Initial state and actions *)

\* App's first render: the seed of useState, no effect has run yet
Init ==
    /\ flights \in ArrayFrom(Capacity, 1)
    /\ nextId = Capacity + 1
    /\ lastTick = NoTick
    /\ wrapCall = NoWrapCall
    /\ searchTerm = <<>>
    /\ selectedFlight = <<>>
    /\ isModalOpen = FALSE
    /\ phase = "rendered"
    /\ interval = "none"
    /\ statusChart = <<>>
    /\ topAirportsChart = <<>>
    /\ view = Render(flights, searchTerm, isModalOpen, selectedFlight)

\* The effects of the first render: the charts are created and the interval
\* is started.
Mount ==
    /\ phase = "rendered"
    /\ phase' = "mounted"
    /\ ChartsAfter(flights)
    /\ interval' = "active"
    /\ UNCHANGED <<flights, searchTerm, selectedFlight, isModalOpen, view, nextId,
                   lastTick, wrapCall>>

\* the updater with the push before the map: the flight generated goes
\* through the callback of the map with the others
TickOutcomesPushFirst(prevFlights, id) ==
    UNION { LET push == r < 200 /\ id <= Capacity + MaxAppends
                pushes == IF push
                          THEN UNION { MapAll(Append(prevFlights, g)) :
                                         g \in generateMockFlight(id) }
                          ELSE MapAll(prevFlights)
            IN  { [ flights  |-> KeepLast(pushed),
                    nextId   |-> IF push THEN id + 1 ELSE id,
                    lastTick |-> TickEffects(prevFlights, KeepLast(pushed), push) ] :
                  pushed \in pushes } :
            r \in PushDraws }

\* What the updater prevFlights => ... can return, with the histories: the
\* flights mapped, one more pushed when Math.random() < 0.2 (and the model
\* has flights left to generate), and the last 50 kept.
TickOutcomes(prevFlights, id) ==
    UNION { LET push == r < 200 /\ id <= Capacity + MaxAppends
                pushes == IF push
                          THEN { Append(newFlights, g) : g \in generateMockFlight(id) }
                          ELSE { newFlights }
            IN  { [ flights  |-> KeepLast(pushed),
                    nextId   |-> IF push THEN id + 1 ELSE id,
                    lastTick |-> TickEffects(prevFlights, KeepLast(pushed), push) ] :
                  pushed \in pushes } :
            newFlights \in MapAll(prevFlights), r \in PushDraws }

\* One firing of the interval: setFlights(prevFlights => ...), the render
\* that follows and its chart effects.
Tick ==
    /\ interval = "active"
    /\ \E out \in TickOutcomes(flights, nextId) :
         /\ flights' = out.flights
         /\ nextId' = out.nextId
         /\ lastTick' = out.lastTick
    /\ ChartsAfter(flights')
    /\ view' = Render(flights', searchTerm, isModalOpen, selectedFlight)
    /\ UNCHANGED <<searchTerm, selectedFlight, isModalOpen, phase, interval,
                   wrapCall>>

\* The terms typed into the search box.
SearchTerms ==
    { <<>>, <<"D","E">>, <<"x","y","z">> }

\* onChange of the search box: setSearchTerm(e.target.value)
SetSearchTerm(term) ==
    /\ phase = "mounted"
    /\ term # searchTerm
    /\ searchTerm' = term
    /\ ChartsAfter(flights)
    /\ view' = Render(flights, term, isModalOpen, selectedFlight)
    /\ UNCHANGED <<flights, selectedFlight, isModalOpen, phase, interval, nextId,
                   lastTick, wrapCall>>

\* the flights whose Details button is on the page
RowFlights == { view.tbody[i].flight[1] :
                  i \in { j \in 1..Len(view.tbody) : view.tbody[j].flight # <<>> } }

\* onClick of a row's Details button: openModal(flight)
openModal(flight) ==
    /\ phase = "mounted"
    /\ flight \in RowFlights
    /\ selectedFlight' = <<flight>>
    /\ isModalOpen' = TRUE
    /\ ChartsAfter(flights)
    /\ view' = Render(flights, searchTerm, TRUE, <<flight>>)
    /\ UNCHANGED <<flights, searchTerm, phase, interval, nextId,
                   lastTick, wrapCall>>

\* closeModal with setSelectedFlight(null) forgotten
closeModalKeepSelected ==
    /\ phase = "mounted"
    /\ view.modal # <<>>
    /\ isModalOpen' = FALSE
    /\ ChartsAfter(flights)
    /\ view' = Render(flights, searchTerm, FALSE, selectedFlight)
    /\ UNCHANGED <<flights, searchTerm, selectedFlight, phase, interval, nextId,
                   lastTick, wrapCall>>

\* onClick of the modal's buttons: closeModal()
closeModal ==
    /\ phase = "mounted"
    /\ view.modal # <<>>
    /\ isModalOpen' = FALSE
    /\ selectedFlight' = <<>>
    /\ ChartsAfter(flights)
    /\ view' = Render(flights, searchTerm, FALSE, <<>>)
    /\ UNCHANGED <<flights, searchTerm, phase, interval, nextId,
                   lastTick, wrapCall>>

\* an unmount whose effect returns no cleanup: the interval stays active
UnmountNoClear ==
    /\ phase = "mounted"
    /\ phase' = "unmounted"
    /\ UNCHANGED <<flights, searchTerm, selectedFlight, isModalOpen, interval,
                   statusChart, topAirportsChart, view, nextId, lastTick, wrapCall>>

\* The cleanup of the interval effect, run when App is unmounted; the page
\* is gone, `view` keeps what was rendered last.
Unmount ==
    /\ phase = "mounted"
    /\ phase' = "unmounted"
    /\ interval' = "cleared"
    /\ UNCHANGED <<flights, searchTerm, selectedFlight, isModalOpen,
                   statusChart, topAirportsChart, view, nextId,
                   lastTick, wrapCall>>

\* The feed over the life of the page: the seed, the start of the interval,
\* its firings and its end.  The handlers of the search box and of the modal
\* write searchTerm, selectedFlight and isModalOpen only, which the feed
\* never reads; they are taken with the specifications of the search.
Next ==
    \/ Mount
    \/ Tick
    \/ Unmount

Spec == Init /\ [][Next]_vars

-----------------------------------------------------------------------------
(* The search box over any flight sequence *)

\* the sequences of n flights, numbered from id on, whose k-th flight is one
\* of gen[k]
RECURSIVE FlightSeqs(_, _, _)
FlightSeqs(gen, n, id) ==
    IF n = 0 THEN { <<>> }
    ELSE { <<f>> \o rest : f \in gen[id], rest \in FlightSeqs(gen, n - 1, id + 1) }

JFK == airports[1]
LHR == airports[2]

\* Flights of every status between JFK and LHR, of the first two airlines
\* (SKY from JFK, GLO from LHR).
SearchInputs ==
    [ id \in 1..(MaxSearchInput + 1) |->
        { f \in MockFlights(id, {0, 1}, {0}, {0, 1}) :
            /\ f.isDelayed \in {0, 10}
            /\ f.altitude = 0
            /\ (f.flightNumber[1] = "S") <=> (f.origin = JFK) } ]

WideSearchTerms ==
    { <<>>,
      <<"j","f","k">>,              \* an origin or destination, in lower case
      <<"L","h","r">>,              \* the same in mixed case
      <<"x","y","z">>,              \* in no field
      <<"D","E">>,                  \* in Delayed and Departed
      <<"n"," ","t">>,              \* in On Time, across the space
      <<"o","1">>,                  \* in GLO100 only
      <<"k","l">>,                  \* across JFK and LHR, in no single field
      <<"j","f","k","j","f","k">> } \* longer than the field it starts

\* a page that shows one of the input sequences, mounted
InitSearch ==
    /\ \E n \in 0..MaxSearchInput : flights \in FlightSeqs(SearchInputs, n, 1)
    /\ nextId = Len(flights) + 1
    /\ lastTick = NoTick
    /\ wrapCall = NoWrapCall
    /\ searchTerm = <<>>
    /\ selectedFlight = <<>>
    /\ isModalOpen = FALSE
    /\ phase = "mounted"
    /\ interval = "active"
    /\ statusChart = <<getFlightStatusData(flights)>>
    /\ topAirportsChart = <<getTopAirportsData(flights)>>
    /\ view = Render(flights, searchTerm, isModalOpen, selectedFlight)

NextSearch == \E term \in WideSearchTerms : SetSearchTerm(term)

SpecSearch == InitSearch /\ [][NextSearch]_vars

-----------------------------------------------------------------------------
(* The charts over any flight sequence *)

\* the routes of the chart inputs, as indexes of `airports`
ChartRoutes == { <<0, 1>>, <<1, 0>>, <<1, 1>>, <<2, 3>>, <<4, 5>>, <<5, 6>> }

\* On Time flights on each of the routes, and flights of every status on the
\* first route.
ChartInputs ==
    [ id \in 1..(MaxChartInput + 1) |->
        { f \in MockFlights(id, {0}, {0}, 0..6) :
            /\ f.isDelayed \in {0, 10}
            /\ f.altitude = 0
            /\ \E r \in ChartRoutes :
                 /\ f.origin = airports[r[1] + 1]
                 /\ f.destination = airports[r[2] + 1]
                 /\ (f.status = OnTime \/ r = <<0, 1>>) } ]

\* a page that shows one of the input sequences, before its effects run
InitCharts ==
    /\ \E n \in 0..MaxChartInput : flights \in FlightSeqs(ChartInputs, n, 1)
    /\ nextId = Len(flights) + 1
    /\ lastTick = NoTick
    /\ wrapCall = NoWrapCall
    /\ searchTerm = <<>>
    /\ selectedFlight = <<>>
    /\ isModalOpen = FALSE
    /\ phase = "rendered"
    /\ interval = "none"
    /\ statusChart = <<>>
    /\ topAirportsChart = <<>>
    /\ view = Render(flights, searchTerm, isModalOpen, selectedFlight)

NextCharts == Mount

SpecCharts == InitCharts /\ [][NextCharts]_vars

-----------------------------------------------------------------------------
(* wrapLabel over any label *)

\* the most words of a label
MaxWords == 3

\* The words of the labels: none (between two spaces that follow each other),
\* short ones, two that fill a line together with their space, and one that
\* is longer than a line.
LabelWords ==
    { <<>>,
      <<"7","4","7">>,
      <<"B","o","e","i","n","g">>,
      <<"F","r","e","i","g","h","t","e","r">>,
      <<"T","r","a","n","s","c","o","n","t","i","n","e","n","t","a","l","s">> }

\* words.join(' ')
RECURSIVE Join(_)
Join(words) ==
    IF words = <<>> THEN <<>>
    ELSE IF Len(words) = 1 THEN words[1]
    ELSE words[1] \o <<" ">> \o Join(Tail(words))

\* Values that are no strings: a number, null, undefined and a boolean, each
\* with what it is written as.
NonStringLabels ==
    { [type |-> "number", value |-> <<"1","2","3","4","5","6","7","8","9","0","1","2","3","4","5","6","7">>],
      [type |-> "null", value |-> <<>>],
      [type |-> "undefined", value |-> <<>>],
      [type |-> "boolean", value |-> <<"t","r","u","e">>] }

\* an array of more than maxLength strings
LongArrayLabel == ArrayValue([i \in 1..(maxLength + 1) |-> <<"7","4","7">>])

\* the strings of up to MaxWords words with a space between them
StringLabels ==
    { StringValue(Join(words)) :
        words \in UNION { [1..n -> LabelWords] : n \in 1..MaxWords } }

\* a page on which wrapLabel is about to be called with some value
InitWrap ==
    /\ \/ \E label \in StringLabels \cup NonStringLabels :
            wrapCall = [label |-> label, returned |-> <<>>]
       \/ wrapCall = [label |-> LongArrayLabel, returned |-> <<>>]
    /\ flights = <<>>
    /\ nextId = 1
    /\ lastTick = NoTick
    /\ searchTerm = <<>>
    /\ selectedFlight = <<>>
    /\ isModalOpen = FALSE
    /\ phase = "rendered"
    /\ interval = "none"
    /\ statusChart = <<>>
    /\ topAirportsChart = <<>>
    /\ view = Render(flights, searchTerm, isModalOpen, selectedFlight)

\* the call wrapLabel(label) returns
WrapLabel ==
    /\ wrapCall.returned = <<>>
    /\ wrapCall' = [wrapCall EXCEPT !.returned = <<wrapLabelValue(wrapCall.label)>>]
    /\ UNCHANGED <<flights, searchTerm, selectedFlight, isModalOpen, phase,
                   interval, statusChart, topAirportsChart, view, nextId,
                   lastTick>>

NextWrap == WrapLabel

SpecWrap == InitWrap /\ [][NextWrap]_vars

-----------------------------------------------------------------------------
(* The modal, the search box and the feed together *)

\* A seed for which generateMockFlight drew the first status each time: the
\* flights are On Time, the status a firing changes.
InitModal ==
    /\ flights \in { fl \in ArrayFrom(Capacity, 1) :
                       \A i \in 1..Len(fl) : fl[i].status = statuses[1] }
    /\ nextId = Capacity + 1
    /\ lastTick = NoTick
    /\ wrapCall = NoWrapCall
    /\ searchTerm = <<>>
    /\ selectedFlight = <<>>
    /\ isModalOpen = FALSE
    /\ phase = "rendered"
    /\ interval = "none"
    /\ statusChart = <<>>
    /\ topAirportsChart = <<>>
    /\ view = Render(flights, searchTerm, isModalOpen, selectedFlight)

\* a firing of the interval whose generateMockFlight, if it is called, draws
\* the first status
TickOnTime ==
    /\ Tick
    /\ nextId' # nextId => flights'[Len(flights')].status = statuses[1]

\* every handler of the page, in any order
NextModal ==
    \/ Mount
    \/ TickOnTime
    \/ \E term \in SearchTerms : SetSearchTerm(term)
    \/ \E flight \in RowFlights : openModal(flight)
    \/ closeModal
    \/ Unmount

SpecModal == InitModal /\ [][NextModal]_vars

-----------------------------------------------------------------------------
(* Properties of the feed, under Spec *)

Ids(fl) == [i \in 1..Len(fl) |-> fl[i].id]
IdSet(fl) == { fl[i].id : i \in 1..Len(fl) }

\* C1 (capacity invariant): after the seed and after every tick, whatever
\* the tick drew, the flight sequence holds at most Capacity records.
C1_CapacityInvariant == Len(flights) <= Capacity

\* a tick pushed a flight onto a full sequence, and the sequence is full
C1_Witness ==
    /\ lastTick.pushed
    /\ Len(flights) = Capacity
    /\ flights[Len(flights)].id = nextId - 1

\* C2 (status-field coupling): in every reachable state every flight whose
\* status is not Departed has altitude 0 and speed 0; so a flight that a tick
\* moved from Departed to Arrived has both at 0 in the state the tick made.
C2_StatusFieldCoupling ==
    \A i \in 1..Len(flights) :
        flights[i].status # Departed =>
            flights[i].altitude = 0 /\ flights[i].speed = 0

\* the last tick moved a flight to Arrived while a flight in the air, with
\* its altitude and speed, stayed
C2_Witness ==
    /\ lastTick.arrived
    /\ \E i \in 1..Len(flights) :
         flights[i].status = Arrived /\ flights[i].altitude = 0
                                     /\ flights[i].speed = 0
    /\ \E i \in 1..Len(flights) :
         flights[i].status = Departed /\ flights[i].altitude > 0
                                      /\ flights[i].speed > 0

\* C3 (truncation order): a tick that pushes a flight onto a full sequence
\* drops the flight at the front and nothing else; the flights that stay
\* keep their order, the new flight is last; a tick that pushes nothing
\* removes nothing; and a flight leaves the sequence only when no flight
\* inserted before it is still there.
C3_TruncationOrder ==
    [][ LET old == Ids(flights)
            new == Ids(flights')
        IN  /\ (nextId' # nextId /\ Len(flights) = Capacity)
                  => new = Tail(old) \o <<nextId>>
            /\ nextId' = nextId => new = old
            /\ \A r \in IdSet(flights) \ IdSet(flights') :
                 \A e \in IdSet(flights') : e > r ]_vars

\* the last tick pushed a flight and the oldest flight of the seed is gone,
\* the others being there in the order of their insertion
C3_Witness ==
    /\ lastTick.pushed
    /\ Len(flights) = Capacity
    /\ flights[1].id > 1
    /\ \A i \in 1..Len(flights) : flights[i].id = nextId - Capacity + i - 1

\* what a tick may make of one flight: the same flight, the flight delayed
\* by 10 to 69 minutes if it was on time, the flight arrived and on the
\* ground if it was in the air; all other fields as they were
TransitionRule(f, g) ==
    \/ g = f
    \/ /\ f.status = OnTime
       /\ g.isDelayed \in 10..69
       /\ g = [f EXCEPT !.status = Delayed, !.isDelayed = g.isDelayed]
    \/ /\ f.status = Departed
       /\ g = [f EXCEPT !.status = Arrived, !.altitude = 0, !.speed = 0]

\* C4 (tick transition rule): over any step, each flight that is in the
\* sequence before and after it is unchanged, or went from On Time to
\* Delayed with a delay in [10,70), or went from Departed to Arrived with
\* altitude and speed 0; nothing else of it changes.
C4_TickTransitionRule ==
    [][ \A i \in 1..Len(flights), j \in 1..Len(flights') :
          flights'[j].id = flights[i].id
              => TransitionRule(flights[i], flights'[j]) ]_vars

\* one tick delayed a flight and landed another
C4_Witness ==
    /\ lastTick.delayed
    /\ lastTick.arrived
    /\ \E i \in 1..Len(flights) :
         flights[i].status = Delayed /\ flights[i].isDelayed \in 10..69

\* C5 (delay coupling): in every reachable state every flight with a delay
\* (isDelayed > 0) has the status Delayed.
C5_DelayCoupling ==
    \A i \in 1..Len(flights) :
        flights[i].isDelayed > 0 => flights[i].status = Delayed

\* the last tick delayed a flight, and a delayed flight is in the sequence
C5_Witness ==
    /\ lastTick.delayed
    /\ \E i \in 1..Len(flights) :
         flights[i].isDelayed > 0 /\ flights[i].status = Delayed

\* C6 (timer cancellation): the interval is active exactly while the page is
\* mounted; it is started once and cleared once; once the page is unmounted
\* the flight sequence never changes again; and the sequence changes only
\* while the interval is active, each change being a tick over the sequence
\* as the change before left it (its flights are flights of that sequence or
\* the one flight generated next).
C6_TimerCancellation ==
    /\ [](interval = CASE phase = "rendered"  -> "none"
                       [] phase = "mounted"   -> "active"
                       [] phase = "unmounted" -> "cleared")
    /\ [][ /\ interval' # interval
               => \/ interval = "none" /\ interval' = "active"
                  \/ interval = "active" /\ interval' = "cleared"
           /\ phase = "unmounted"
               => /\ flights' = flights
                  /\ nextId' = nextId
                  /\ lastTick' = lastTick
                  /\ phase' = phase
           /\ flights' # flights
               => /\ interval = "active"
                  /\ IdSet(flights') \subseteq IdSet(flights) \cup {nextId} ]_vars

\* the page was unmounted after a tick that pushed a flight
C6_Witness ==
    /\ phase = "unmounted"
    /\ interval = "cleared"
    /\ lastTick.pushed

-----------------------------------------------------------------------------
(* Properties of the search, under SpecSearch *)

\* t occurs in s at some offset
IsSubstring(t, s) ==
    \E k \in 0..(Len(s) - Len(t)) : \A j \in 1..Len(t) : s[k + j] = t[j]

\* s with each capital letter replaced by its small letter
LowerCased(s) ==
    [i \in 1..Len(s) |->
        IF \E k \in 1..Len(UpperChars) : UpperChars[k] = s[i]
        THEN LowerChars[CHOOSE k \in 1..Len(UpperChars) : UpperChars[k] = s[i]]
        ELSE s[i]]

\* the flight matches the query q
Matching(f, q) ==
    \E field \in {f.flightNumber, f.origin, f.destination, f.status} :
        IsSubstring(LowerCased(q), LowerCased(field))

\* the positions of the flights that match the search term
MatchingPositions == { i \in 1..Len(flights) : Matching(flights[i], searchTerm) }

\* the k-th smallest element of a set of numbers
Kth(S, k) == CHOOSE i \in S : Cardinality({ j \in S : j <= i }) = k

\* the flights of the table's rows, in the order of the rows
TableFlights ==
    LET rows == SelectSeq(view.tbody, LAMBDA row : row.flight # <<>>)
    IN  [k \in 1..Len(rows) |-> rows[k].flight[1]]

\* C7 (search predicate): for every flight sequence and every search term
\* the table lists exactly the flights that match it (the lower-cased term
\* occurs in the lower-cased flightNumber, origin, destination or status),
\* in the order they have in the sequence; so a flight from JFK is listed
\* for the term jfk, and no flight is listed for the term xyz.
C7_SearchPredicate ==
    /\ Len(TableFlights) = Cardinality(MatchingPositions)
    /\ \A k \in 1..Len(TableFlights) :
         TableFlights[k] = flights[Kth(MatchingPositions, k)]
    /\ searchTerm = <<"j","f","k">> =>
         \A i \in 1..Len(flights) :
            flights[i].origin = JFK =>
               \E k \in 1..Len(TableFlights) : TableFlights[k] = flights[i]
    /\ searchTerm = <<"x","y","z">> => TableFlights = <<>>

\* the mixed-case term Lhr lists the second of two flights and not the first
C7_Witness ==
    /\ searchTerm = <<"L","h","r">>
    /\ Len(flights) = 2
    /\ TableFlights = <<flights[2]>>
    /\ flights[2].destination = LHR

\* the number of matching flights with the status given
MatchingWithStatus(status) ==
    Cardinality({ i \in MatchingPositions : flights[i].status = status })

\* C8 (filtered view): the three KPI values count the flights that match the
\* search term and are Departed, Arrived and Delayed, so none exceeds the
\* number of flight rows of the table; the table has one row per matching
\* flight, and when no flight matches it has the one row that says so
\* instead of no row.
C8_FilteredView ==
    /\ view.kpiDeparted = MatchingWithStatus(Departed)
    /\ view.kpiArrived = MatchingWithStatus(Arrived)
    /\ view.kpiDelayed = MatchingWithStatus(Delayed)
    /\ view.kpiDeparted <= Len(TableFlights)
    /\ view.kpiArrived <= Len(TableFlights)
    /\ view.kpiDelayed <= Len(TableFlights)
    /\ IF MatchingPositions = {}
       THEN view.tbody = << [flight |-> <<>>, text |-> NoFlightsText] >>
       ELSE /\ Len(view.tbody) = Cardinality(MatchingPositions)
            /\ \A k \in 1..Len(view.tbody) : view.tbody[k].flight # <<>>

\* a term that no flight of a sequence of two matches: the message row
C8_WitnessNoMatch ==
    /\ searchTerm = <<"x","y","z">>
    /\ Len(flights) = 2
    /\ Len(view.tbody) = 1
    /\ view.tbody[1].text = NoFlightsText

-----------------------------------------------------------------------------
(* Properties of the charts, under SpecCharts *)

RECURSIVE SumSeq(_)
SumSeq(s) == IF s = <<>> THEN 0 ELSE Head(s) + SumSeq(Tail(s))

\* C9 (aggregation totals): for every flight sequence the counts of the
\* status chart add up to the number of flights, and its labels are the
\* statuses that occur in the sequence, each once, none with a count of 0.
C9_AggregationTotals ==
    statusChart # <<>> =>
        LET chart == statusChart[1]
        IN  /\ SumSeq(chart.data) = Len(flights)
            /\ Len(chart.labels) = Len(chart.data)
            /\ { chart.labels[i] : i \in 1..Len(chart.labels) }
                  = { flights[i].status : i \in 1..Len(flights) }
            /\ \A i, j \in 1..Len(chart.labels) :
                  chart.labels[i] = chart.labels[j] => i = j
            /\ \A i \in 1..Len(chart.data) : chart.data[i] > 0

\* a chart of fewer labels than flights: some status occurs twice
C9_Witness ==
    /\ statusChart # <<>>
    /\ Len(flights) = 3
    /\ Len(statusChart[1].labels) = 2
    /\ \E i \in 1..2 : statusChart[1].data[i] = 2

\* the airport codes that occur as an origin or a destination
AirportCodes ==
    { flights[i].origin : i \in 1..Len(flights) }
        \cup { flights[i].destination : i \in 1..Len(flights) }

\* C10 (top-airports bound): for every flight sequence the airports chart
\* has at most min(5, number of distinct airport codes) entries, and its
\* frequencies do not increase along the chart.
C10_TopAirportsBound ==
    topAirportsChart # <<>> =>
        LET chart == topAirportsChart[1]
        IN  /\ Len(chart.labels) = Len(chart.data)
            /\ Len(chart.data) <= Min(5, Cardinality(AirportCodes))
            /\ \A i \in 1..(Len(chart.data) - 1) :
                  chart.data[i] >= chart.data[i + 1]

\* seven airports occur, five are charted, the first more often than the last
C10_Witness ==
    /\ topAirportsChart # <<>>
    /\ Cardinality(AirportCodes) = 7
    /\ Len(topAirportsChart[1].data) = 5
    /\ topAirportsChart[1].data[1] > topAirportsChart[1].data[5]

-----------------------------------------------------------------------------
(* Properties of wrapLabel, under SpecWrap *)

\* the positions of s where a word starts, and the word that starts there
WordStarts(s) ==
    { i \in 1..Len(s) : s[i] # " " /\ (i = 1 \/ s[i - 1] = " ") }
WordFrom(s, i) ==
    LET last == CHOOSE j \in i..Len(s) :
                    /\ \A k \in i..j : s[k] # " "
                    /\ (j = Len(s) \/ s[j + 1] = " ")
    IN  [k \in 1..(last - i + 1) |-> s[i + k - 1]]

\* the words of s that have a character, in their order
WordsOf(s) ==
    [k \in 1..Cardinality(WordStarts(s)) |-> WordFrom(s, Kth(WordStarts(s), k))]

RECURSIVE Flatten(_)
Flatten(ss) == IF ss = <<>> THEN <<>> ELSE Head(ss) \o Flatten(Tail(ss))

BoeingLabel == <<"B","o","e","i","n","g"," ","7","4","7"," ","F","r","e","i","g","h","t","e","r">>

\* C11 (label wrapping): a value that is no string is returned as it is.  For
\* a string of more than maxLength characters an array of lines is returned:
\* the lines hold the words of the string, each once and in order, every line
\* has a word, and every line of more than one word has at most maxLength
\* characters.  Where one space separates the words of the string, one space
\* separates the words of each line, and the first word of the next line
\* would have made the line longer than maxLength: the packing is greedy.
\* Boeing 747 Freighter gives the lines Boeing 747 and Freighter.
C11_LabelWrapping ==
    wrapCall.returned # <<>> =>
        LET label == wrapCall.label
            out == wrapCall.returned[1]
        IN  IF label.type # "string"
            THEN out = label
            ELSE Len(label.value) > maxLength =>
                 /\ out.type = "array"
                 /\ LET lines == out.value
                        words == [i \in 1..Len(lines) |-> WordsOf(lines[i])]
                    IN  /\ Flatten(words) = WordsOf(label.value)
                        /\ \A i \in 1..Len(lines) :
                             /\ words[i] # <<>>
                             /\ Len(words[i]) > 1 => Len(lines[i]) <= maxLength
                        /\ label.value = Join(WordsOf(label.value)) =>
                             /\ \A i \in 1..Len(lines) :
                                  lines[i] = Join(words[i])
                             /\ \A i \in 1..(Len(lines) - 1) :
                                  Len(lines[i]) + 1 + Len(words[i + 1][1])
                                      > maxLength
                        /\ label.value = BoeingLabel =>
                             lines = << <<"B","o","e","i","n","g"," ","7","4","7">>,
                                        <<"F","r","e","i","g","h","t","e","r">> >>

\* wrapLabel returned two lines for a string whose words one space separates,
\* the first of two words and of exactly maxLength characters
C11_Witness ==
    /\ wrapCall.returned # <<>>
    /\ wrapCall.label.type = "string"
    /\ wrapCall.label.value = Join(WordsOf(wrapCall.label.value))
    /\ wrapCall.returned[1].type = "array"
    /\ Len(wrapCall.returned[1].value) = 2
    /\ Len(wrapCall.returned[1].value[1]) = maxLength
    /\ Len(WordsOf(wrapCall.returned[1].value[1])) = 2

-----------------------------------------------------------------------------
(* More properties of the feed, under Spec *)

\* the positions of the flights of `after` that are not in `before`
NewPositions(before, after) ==
    { j \in 1..Len(after) : after[j].id \notin IdSet(before) }

\* what generateMockFlight can return for each flight of a behaviour
GeneratedFlights ==
    [id \in 1..(Capacity + MaxAppends + 1) |-> generateMockFlight(id)]

\* C12 (tick append): the first flights are those of the seed.  A step adds
\* at most one flight to the sequence; if it adds one the step is a firing
\* of the interval that pushed, the flight is the last of the sequence that
\* results, and it is as generateMockFlight returned it: the callback of
\* the map of that firing has not been applied to it.
C12_TickAppend ==
    /\ Ids(flights) = [i \in 1..Capacity |-> i]
    /\ [][ LET new == NewPositions(flights, flights')
           IN  /\ Cardinality(new) <= 1
               /\ new # {} =>
                    /\ interval = "active"
                    /\ lastTick'.pushed
                    /\ new = { Len(flights') }
                    /\ nextId' = nextId + 1
                    /\ flights'[Len(flights')] \in GeneratedFlights[nextId]
         ]_vars

\* the last firing pushed a flight, which is the last of the sequence, and
\* moved another flight to Delayed
C12_Witness ==
    /\ lastTick.pushed
    /\ lastTick.delayed
    /\ flights[Len(flights)].id = nextId - 1
    /\ flights[Len(flights)].status = OnTime

-----------------------------------------------------------------------------
(* More properties of the charts, under SpecCharts *)

\* how often a code is an origin, plus how often it is a destination
Frequency(code) ==
    Cardinality({ i \in 1..Len(flights) : flights[i].origin = code })
        + Cardinality({ i \in 1..Len(flights) : flights[i].destination = code })

\* where a scan of the flights in order, origin before destination, meets a
\* code first
FirstEncounter(code) ==
    LET at == { 2 * i - 1 : i \in { j \in 1..Len(flights) : flights[j].origin = code } }
                \cup { 2 * i : i \in { j \in 1..Len(flights) : flights[j].destination = code } }
    IN  CHOOSE n \in at : \A m \in at : n <= m

\* C13 (top-airports ranking): for every flight sequence each frequency of
\* the airports chart is the number of flights with that code as origin plus
\* the number with it as destination, no airport left out has a higher
\* frequency than one of the chart, and of two airports of the chart with
\* the same frequency the one met first in the flights (origin before
\* destination) comes first.
C13_TopAirportsRanking ==
    topAirportsChart # <<>> =>
        LET chart == topAirportsChart[1]
            listed == { chart.labels[k] : k \in 1..Len(chart.labels) }
        IN  /\ \A k \in 1..Len(chart.labels) :
                 /\ chart.labels[k] \in AirportCodes
                 /\ chart.data[k] = Frequency(chart.labels[k])
            /\ \A code \in AirportCodes \ listed :
                 \A k \in 1..Len(chart.data) : Frequency(code) <= chart.data[k]
            /\ \A k, l \in 1..Len(chart.labels) :
                 (k < l /\ chart.data[k] = chart.data[l]) =>
                     FirstEncounter(chart.labels[k]) < FirstEncounter(chart.labels[l])

\* a chart that leaves an airport out, lists an airport that is the origin
\* and the destination of one flight, and lists two airports of the same
\* frequency in the order the flights have them, not the one of `airports`
C13_Witness ==
    /\ topAirportsChart # <<>>
    /\ \E code \in AirportCodes :
         \A k \in 1..Len(topAirportsChart[1].labels) :
             topAirportsChart[1].labels[k] # code
    /\ \E i \in 1..Len(flights), k \in 1..Len(topAirportsChart[1].labels) :
         /\ flights[i].origin = flights[i].destination
         /\ topAirportsChart[1].labels[k] = flights[i].origin
    /\ \E k, l \in 1..Len(topAirportsChart[1].labels), a, b \in 1..Len(airports) :
         /\ k < l
         /\ b < a
         /\ topAirportsChart[1].labels[k] = airports[a]
         /\ topAirportsChart[1].labels[l] = airports[b]
         /\ topAirportsChart[1].data[k] = topAirportsChart[1].data[l]

\* C14 (exact size): in every reachable state the flight sequence holds
\* exactly Capacity flights, the number the seed creates; a step that adds a
\* flight removes exactly one, the flight at the front, and a step that adds
\* none removes none.
C14_ExactSize ==
    /\ [](Len(flights) = Capacity)
    /\ [][ LET removed == IdSet(flights) \ IdSet(flights')
           IN  IF NewPositions(flights, flights') # {}
               THEN removed = { flights[1].id }
               ELSE removed = {} ]_vars

\* two firings pushed a flight each: the first two flights of the seed are
\* gone and the sequence is as long as the seed
C14_Witness ==
    /\ lastTick.pushed
    /\ Len(flights) = Capacity
    /\ flights[1].id = 3
    /\ nextId = Capacity + 3

\* the number of flights of `fl` with the status given whose id is in `ids`
CountOf(fl, st, ids) ==
    Cardinality({ i \in 1..Len(fl) : fl[i].status = st /\ fl[i].id \in ids })

\* C15 (absorbing statuses): over each step a flight that is Delayed,
\* Arrived or Cancelled and stays in the sequence keeps its status, delay,
\* altitude and speed; a step changes the status of a flight only to Delayed
\* or Arrived, the statuses it then keeps, so that no flight changes status
\* twice; and over each step the flights of the sequence before it are not
\* more often On Time after it than before, nor more often Departed.
C15_AbsorbingStatuses ==
    [][ /\ \A i \in 1..Len(flights), j \in 1..Len(flights') :
             flights'[j].id = flights[i].id =>
               /\ flights'[j].status # flights[i].status
                     => flights'[j].status \in {Delayed, Arrived}
               /\ flights[i].status \in {Delayed, Arrived, Cancelled} =>
                     /\ flights'[j].status = flights[i].status
                     /\ flights'[j].isDelayed = flights[i].isDelayed
                     /\ flights'[j].altitude = flights[i].altitude
                     /\ flights'[j].speed = flights[i].speed
        /\ \A st \in {OnTime, Departed} :
             CountOf(flights', st, IdSet(flights))
                 <= CountOf(flights, st, IdSet(flights)) ]_vars

\* the last firing landed a flight and delayed none, and the sequence holds a
\* flight that an earlier firing delayed by 69 minutes, and a Cancelled one
C15_Witness ==
    /\ lastTick.arrived
    /\ ~lastTick.delayed
    /\ \E i \in 1..Len(flights) :
         flights[i].status = Delayed /\ flights[i].isDelayed = 69
    /\ \E i \in 1..Len(flights) : flights[i].status = Cancelled

\* C16 (Delayed has a positive delay): in every reachable state a flight is
\* Delayed if and only if its delay is above 0, and the delay of a Delayed
\* flight is 10 at least and below 130; a flight that a step moves from On
\* Time to Delayed gets a delay of 10 at least and below 70.
C16_DelayedHasDelay ==
    /\ [](\A i \in 1..Len(flights) :
            /\ flights[i].status = Delayed <=> flights[i].isDelayed > 0
            /\ flights[i].status = Delayed => flights[i].isDelayed \in 10..129)
    /\ [][ \A i \in 1..Len(flights), j \in 1..Len(flights') :
             ( /\ flights'[j].id = flights[i].id
               /\ flights[i].status = OnTime
               /\ flights'[j].status = Delayed )
                 => flights'[j].isDelayed \in 10..69 ]_vars

\* the sequence holds a flight generated with a delay of 129 minutes, a
\* flight that the last firing delayed, and a flight without delay
C16_Witness ==
    /\ lastTick.delayed
    /\ \E i \in 1..Len(flights) :
         flights[i].status = Delayed /\ flights[i].isDelayed = 129
    /\ \E i \in 1..Len(flights) :
         flights[i].status = Delayed /\ flights[i].isDelayed \in 10..69
    /\ \E i \in 1..Len(flights) :
         flights[i].status # Delayed /\ flights[i].isDelayed = 0

-----------------------------------------------------------------------------
(* Properties of the modal, under SpecModal *)

\* C17 (modal state): in every reachable state isModalOpen is true exactly
\* when selectedFlight is not null, and the modal on the page shows
\* selectedFlight exactly then.  A step that selects a flight stores a flight
\* of the sequence as it is at that step; a step that changes the flights or
\* the search term leaves selectedFlight and isModalOpen as they are.
C17_ModalState ==
    /\ [](/\ isModalOpen <=> selectedFlight # <<>>
          /\ view.modal = IF isModalOpen THEN selectedFlight ELSE <<>>)
    /\ [][ /\ (selectedFlight' # selectedFlight /\ selectedFlight' # <<>>) =>
                /\ \E i \in 1..Len(flights) : selectedFlight' = <<flights[i]>>
                /\ flights' = flights
           /\ (flights' # flights \/ searchTerm' # searchTerm) =>
                /\ selectedFlight' = selectedFlight
                /\ isModalOpen' = isModalOpen ]_vars

\* the modal is open on a flight as it was On Time, which the sequence now
\* holds as Delayed, while the table is filtered
C17_Witness ==
    /\ isModalOpen
    /\ selectedFlight # <<>>
    /\ view.modal = selectedFlight
    /\ searchTerm # <<>>
    /\ selectedFlight[1].status = OnTime
    /\ \E i \in 1..Len(flights) :
         /\ flights[i].id = selectedFlight[1].id
         /\ flights[i].status = Delayed

\* the modal is open on a flight that is no longer in the sequence
C17_WitnessTruncated ==
    /\ isModalOpen
    /\ selectedFlight # <<>>
    /\ view.modal = selectedFlight
    /\ selectedFlight[1].id \notin IdSet(flights)

====
